---- MODULE Spec2Model ----
(***************************************************************************)
(* State-machine model of the sam-flutter server: the ModelManager (one    *)
(* shared, swappable SAM2 model), the SessionManager (bounded registry of  *)
(* sessions with TTL/capacity garbage collection and one lock per         *)
(* session) and the HTTP handlers of app.py that drive them.               *)
(*                                                                         *)
(* Every request runs on a thread of the server's thread pool.  A step of  *)
(* the model is one atomic piece of a handler: a critical section of a     *)
(* lock whose data nobody reads without the lock, or a single lock-free    *)
(* read or write of a ModelManager attribute.  The arrival of a request    *)
(* and the local work of a handler (argument checks, decoding) are part of *)
(* the step that makes the handler's next access to shared state.          *)
(***************************************************************************)
EXTENDS Integers, Sequences, FiniteSets, TLC

\* ------------------------------------------------------------ bounds
\* The clock runs from 0 to MaxTime.
MaxTime == 2
\* The requests served in a run: of one component's handlers (SpecEngine,
\* SpecRegistry), of all handlers (Spec).
MaxReqs == 3
MaxReqsAll == 2
\* The requests served in a run of the session handlers alone (SpecSessions).
MaxReqsSessions == 4
\* The candidates that predictor.predict returns: at most MaxMasks, with
\* scores in 1..MaxScore.
MaxMasks == 3
MaxScore == 2

\* --------------------------------------------------- program constants
\* SAM2_SESSION_TTL_S and SAM2_MAX_SESSIONS (environment, read once).
ttl_s == 1
max_sessions == 2

Threads == {"t1", "t2"}
NoThread == "nobody"

None == "None"
DEFAULT_MODEL_KEY == "tiny"
\* _catalog(): the keys, and the ones whose checkpoint file is present and
\* non-empty.  "bogus" is a key outside the catalog.
Catalog == {"tiny", "small", "large"}
Downloaded == {"tiny", "small"}
Keys == Catalog \cup {"bogus"}

\* Each request generates at most one session id.
Sids == 1..MaxReqs

VARIABLES
    now,         \* time.time()
    budget,      \* the requests still to come in this run
    model_key,   \* ModelManager._model_key
    device,      \* ModelManager._device
    model,       \* ModelManager._model: 0 is None, n the n-th model built
    keyLoad,     \* history: the model whose load wrote model_key (0: none)
    devLoad,     \* history: the model whose load wrote device (0: none)
    built,       \* history: the key each model was built from, in order
    calls,       \* history: the latest calls of load and build_sam2 (see LoadCalled)
    mm_lock,     \* ModelManager._lock: its holder
    sm_lock,     \* SessionManager._lock: its holder
    sessions,    \* SessionManager._sessions: the ids in the dict
    sobj,        \* the _Session objects still reachable, by id
    nextSid,     \* the next uuid
    pc,          \* each thread's position
    loc          \* each thread's locals

vars == <<now, budget, model_key, device, model, keyLoad, devLoad, built, calls,
          mm_lock, sm_lock, sessions, sobj, nextSid, pc, loc>>

engine == <<model_key, device, model, keyLoad, devLoad, built>>
registry == <<sessions, sobj, nextSid>>

\* ------------------------------------------------------------- locals
\* op, key, sid, arg: the request.  lkey: load()'s model_key.  inPred: inside
\* predictor().  csid, pred: create()'s sid and predictor.  ikey, idev:
\* what info() read.  ret, exc, status: the outcome; cause: the exception
\* that exc was raised from.  history, mine: the model that the load() of
\* this request built and stored (0: none).
NoLoc == [op |-> "none", key |-> None, sid |-> 0, arg |-> "none",
          lkey |-> None, inPred |-> FALSE, csid |-> 0, pred |-> 0,
          ikey |-> None, idev |-> 0, ret |-> 0, exc |-> "none", cause |-> "none",
          status |-> 0, mine |-> 0]

\* _Session: predictor is the model its predictor was built on; width is 0
\* until an image is set.
NoSession == [predictor |-> 0, last_used |-> 0, width |-> 0, lock |-> NoThread]

\* The server after the construction of model_mgr and session_mgr, with n
\* requests to come.
InitWith(n) ==
    /\ now = 0
    /\ budget = n
    /\ model_key = None
    /\ device = None
    /\ model = 0
    /\ keyLoad = 0
    /\ devLoad = 0
    /\ built = <<>>
    /\ calls = [key |-> None, n |-> 0, ok |-> FALSE, again |-> FALSE]
    /\ mm_lock = NoThread
    /\ sm_lock = NoThread
    /\ sessions = {}
    /\ sobj = [s \in Sids |-> NoSession]
    /\ nextSid = 1
    /\ pc = [t \in Threads |-> "idle"]
    /\ loc = [t \in Threads |-> NoLoc]

Init == InitWith(MaxReqsAll)

\* A thread is free to take the next request.
Idle(t) == pc[t] \in {"idle", "done"}

\* A request arrives at a free thread.
Receive(t) ==
    /\ Idle(t)
    /\ budget > 0
    /\ budget' = budget - 1

\* ------------------------------------------------- the HTTP error mapping
\* app.py: what each handler answers when the service raises `exc`.
\* inTry: the exception was raised inside the handler's try block.
HandlerStatus(op, inTry, exc) ==
    CASE exc = "none" -> 200
      [] exc = "HTTP400" -> 400
      [] op \in {"select", "create_session"} /\ inTry /\ exc = "FileNotFoundError" -> 404
      [] op \in {"set_image", "predict", "delete"} /\ exc = "KeyError" -> 404
      [] op = "predict" /\ exc = "ValueError" -> 400
      [] OTHER -> 500

\* The handler of thread t ends with locals l: its exception and HTTP status.
\* create_session calls create() outside its try block.
FinishL(t, exc, l) ==
    /\ pc' = [pc EXCEPT ![t] = "done"]
    /\ loc' = [loc EXCEPT ![t] =
                 [l EXCEPT !.exc = exc,
                           !.status = HandlerStatus(l.op, ~l.inPred /\ l.csid = 0, exc),
                           !.lkey = None, !.inPred = FALSE, !.csid = 0, !.pred = 0,
                           !.mine = 0]]

Finish(t, exc) == FinishL(t, exc, loc[t])

\* A request arrives at a free thread, which goes to p with locals l.
Begin(t, l, p) ==
    /\ Receive(t)
    /\ pc' = [pc EXCEPT ![t] = p]
    /\ loc' = [loc EXCEPT ![t] = l]

Tick ==
    /\ now < MaxTime
    /\ now' = now + 1
    /\ UNCHANGED <<budget, engine, calls, mm_lock, sm_lock, registry, pc, loc>>

\* The _Session objects out of the dict that no thread holds are garbage.
RefPcs == {"si_lock", "si_in", "pr_lock", "pr_in"}

Scrub(X) ==
    [s \in Sids |->
       IF s \in sessions' \/ (\E u \in Threads : pc'[u] \in RefPcs /\ loc'[u].sid = s)
         THEN X[s] ELSE NoSession]


\* ------------------------------------------------------- ModelManager
\* load(), before the lock: the catalog and the checkpoint file.
LoadCheck(k) ==
    CASE k \notin Catalog -> "ValueError"
      [] k \in Catalog /\ k \notin Downloaded -> "FileNotFoundError"
      [] OTHER -> "none"

\* AlreadyLoaded with the test of the model inverted (`is None`).
AlreadyLoadedInverted(k) == model_key = k /\ model = 0

\* load(): the no-op test made under the lock.
AlreadyLoaded(k) == model_key = k /\ model # 0

\* What follows a load() that returns: predictor() goes on to construct,
\* the handlers (select_model, create_session) call session_mgr.clear().
LoadReturnPc(t) == IF loc[t].inPred THEN "pred_lock" ELSE "clear"

\* LoadRaise of a create() that keeps the registry lock when predictor()
\* raises.
LoadRaiseKeepLock(t, exc) ==
    /\ Finish(t, exc)
    /\ UNCHANGED sm_lock

\* An exception leaves load(): inside create() it unwinds predictor() and
\* create(), whose `with self._lock` releases the registry lock.
LoadRaise(t, exc) ==
    /\ Finish(t, exc)
    /\ sm_lock' = IF sm_lock = t THEN NoThread ELSE sm_lock

\* history: load(k) is called.  calls.key is the key of the latest call of
\* load or build_sam2; the other fields are about the calls made for that
\* key since the last call made for another key.
LoadCalled(k) ==
    IF calls.key = k THEN calls
    ELSE [key |-> k, n |-> 0, ok |-> FALSE, again |-> FALSE]

\* history: build_sam2 is called for key k and returns a model (ok) or
\* raises.  n: the calls of build_sam2 (2 stands for two or more); ok: one
\* of them returned a model; again: one was made after that.
BuildCalled(k, ok) ==
    [key |-> k,
     n |-> IF LoadCalled(k).n >= 1 THEN 2 ELSE 1,
     ok |-> LoadCalled(k).ok \/ ok,
     again |-> LoadCalled(k).again \/ LoadCalled(k).ok]

\* load(): `with self._lock`, and the test that makes a repeated load a no-op.
LoadEnter(t) ==
    /\ pc[t] = "load_lock"
    /\ mm_lock = NoThread
    /\ IF AlreadyLoaded(loc[t].lkey)
         THEN /\ pc' = [pc EXCEPT ![t] = LoadReturnPc(t)]
              /\ UNCHANGED mm_lock
         ELSE /\ pc' = [pc EXCEPT ![t] = "load_build"]
              /\ mm_lock' = t
    /\ UNCHANGED <<now, budget, engine, calls, sm_lock, registry, loc>>

\* build_sam2 returns the model, which is stored in self._model ...
LoadBuildOk(t) ==
    /\ pc[t] = "load_build"
    /\ built' = Append(built, loc[t].lkey)
    /\ calls' = BuildCalled(loc[t].lkey, TRUE)
    /\ model' = Len(built) + 1
    /\ pc' = [pc EXCEPT ![t] = "load_setkey"]
    /\ loc' = [loc EXCEPT ![t].mine = IF loc[t].inPred THEN 0 ELSE Len(built) + 1]
    /\ UNCHANGED <<now, budget, model_key, device, keyLoad, devLoad, mm_lock, sm_lock,
                   registry>>

\* LoadBuildFail of a load() that stores the key before it builds.
LoadBuildFailKeyFirst(t) ==
    /\ pc[t] = "load_build"
    /\ calls' = BuildCalled(loc[t].lkey, FALSE)
    /\ mm_lock' = NoThread
    /\ model_key' = loc[t].lkey
    /\ LoadRaise(t, "BuildError")
    /\ UNCHANGED <<now, budget, device, model, keyLoad, devLoad, built, registry>>

\* LoadBuildFail leaving the ModelManager's lock held.
LoadBuildFailKeepLock(t) ==
    /\ pc[t] = "load_build"
    /\ calls' = BuildCalled(loc[t].lkey, FALSE)
    /\ LoadRaise(t, "BuildError")
    /\ UNCHANGED <<now, budget, model_key, device, model, keyLoad, devLoad, built,
                   mm_lock, registry>>

\* ... or raises (a corrupt checkpoint, no memory): the lock is released.
LoadBuildFail(t) ==
    /\ pc[t] = "load_build"
    /\ calls' = BuildCalled(loc[t].lkey, FALSE)
    /\ mm_lock' = NoThread
    /\ LoadRaise(t, "BuildError")
    /\ UNCHANGED <<now, budget, model_key, device, model, keyLoad, devLoad, built, registry>>

\* self._model_key = model_key
LoadSetKey(t) ==
    /\ pc[t] = "load_setkey"
    /\ model_key' = loc[t].lkey
    /\ keyLoad' = model
    /\ pc' = [pc EXCEPT ![t] = "load_setdev"]
    /\ UNCHANGED <<now, budget, device, model, devLoad, built, calls, mm_lock, sm_lock,
                   registry, loc>>

\* self._device = device, and the end of the `with`.
LoadSetDevice(t) ==
    /\ pc[t] = "load_setdev"
    /\ device' = "dev"
    /\ devLoad' = model
    /\ mm_lock' = NoThread
    /\ pc' = [pc EXCEPT ![t] = LoadReturnPc(t)]
    /\ UNCHANGED <<now, budget, model_key, model, keyLoad, built, calls, sm_lock,
                   registry, loc>>

\* predictor(): the lock-free read `self._model_key or DEFAULT_MODEL_KEY`,
\* and load()'s checks of that key.
PredictorReadKey(t) ==
    /\ pc[t] = "pred"
    /\ LET k == IF model_key = None THEN DEFAULT_MODEL_KEY ELSE model_key
       IN  /\ IF LoadCheck(k) # "none"
             THEN LoadRaise(t, LoadCheck(k))
             ELSE /\ loc' = [loc EXCEPT ![t].lkey = k, ![t].inPred = TRUE]
                  /\ pc' = [pc EXCEPT ![t] = "load_lock"]
                  /\ UNCHANGED sm_lock
           /\ calls' = LoadCalled(k)
    /\ UNCHANGED <<now, budget, engine, mm_lock, registry>>

\* PredictorConstruct reading self._model without the lock.
PredictorConstructNoLock(t) ==
    /\ pc[t] = "pred_lock"
    /\ loc' = [loc EXCEPT ![t].pred = model, ![t].inPred = FALSE]
    /\ pc' = [pc EXCEPT ![t] = "create_ins"]
    /\ UNCHANGED <<now, budget, engine, calls, mm_lock, sm_lock, registry>>

\* predictor(): `with self._lock: return SAM2ImagePredictor(self._model)`.
PredictorConstruct(t) ==
    /\ pc[t] = "pred_lock"
    /\ mm_lock = NoThread
    /\ loc' = [loc EXCEPT ![t].pred = model, ![t].inPred = FALSE]
    /\ pc' = [pc EXCEPT ![t] = "create_ins"]
    /\ UNCHANGED <<now, budget, engine, calls, mm_lock, sm_lock, registry>>

\* info(): the lock-free read of self._model_key ...
InfoReadKey(t) ==
    /\ pc[t] = "info_key"
    /\ loc' = [loc EXCEPT ![t].ikey = IF model_key = None THEN DEFAULT_MODEL_KEY
                                      ELSE model_key]
    /\ pc' = [pc EXCEPT ![t] = "info_dev"]
    /\ UNCHANGED <<now, budget, engine, calls, mm_lock, sm_lock, registry>>

\* ... and of self._device; health() goes on to count().
InfoReadDevice(t) ==
    /\ pc[t] = "info_dev"
    /\ IF loc[t].op = "health"
         THEN /\ loc' = [loc EXCEPT ![t].idev = devLoad]
              /\ pc' = [pc EXCEPT ![t] = "count"]
         ELSE FinishL(t, "none", [loc[t] EXCEPT !.idev = devLoad])
    /\ UNCHANGED <<now, budget, engine, calls, mm_lock, sm_lock, registry>>

\* ----------------------------------------------------- SessionManager
\* Expired with the ttl itself counted as expired.
ExpiredAtTtl(s) == now - sobj[s].last_used >= ttl_s

\* _gc(): `now - s.last_used > self._ttl_s`.
Expired(s) == now - sobj[s].last_used > ttl_s

\* sorted(..., key=last_used) is stable and the dict keeps insertion order,
\* which is the order of the ids here: a comes before b in by_old.
Older(a, b) ==
    \/ sobj[a].last_used < sobj[b].last_used
    \/ sobj[a].last_used = sobj[b].last_used /\ a < b

\* _gc(), second phase: by_old[: max(0, len - max_sessions)] is dropped.
Lru(S) ==
    IF Cardinality(S) > max_sessions
      THEN {s \in S : Cardinality({x \in S : Older(x, s)})
                        >= Cardinality(S) - max_sessions}
      ELSE S

\* Gc making room for the session to come: the second phase runs as soon
\* as the dict is full and leaves max_sessions - 1 entries.
GcMakingRoom(S) ==
    LET T == {s \in S : ~Expired(s)}
    IN  IF Cardinality(T) >= max_sessions
          THEN {s \in T : Cardinality({x \in T : Older(x, s)})
                            >= Cardinality(T) - max_sessions + 1}
          ELSE T

\* _gc(): the dict after both phases.
Gc(S) == Lru({s \in S : ~Expired(s)})

\* Full with the comparison off by one.
FullOffByOne(S) == Cardinality(S) > max_sessions

\* create(): `len(self._sessions) >= self._max_sessions`.
Full(S) == Cardinality(S) >= max_sessions

\* count(): gc, then len.
Count(t) ==
    /\ pc[t] = "count"
    /\ sm_lock = NoThread
    /\ sessions' = Gc(sessions)
    /\ FinishL(t, "none", [loc[t] EXCEPT !.ret = Cardinality(Gc(sessions))])
    /\ sobj' = Scrub(sobj)
    /\ UNCHANGED <<now, budget, engine, calls, mm_lock, sm_lock, nextSid>>

\* count() called on its own: _gc() and len.  The _Session objects that
\* _gc() drops are left as they are; history, arg: the ids it found.
CountDirect(t) ==
    /\ sm_lock = NoThread
    /\ Receive(t)
    /\ sessions' = Gc(sessions)
    /\ FinishL(t, "none", [NoLoc EXCEPT !.op = "count", !.arg = sessions,
                                      !.ret = Cardinality(Gc(sessions))])
    /\ UNCHANGED <<now, engine, calls, mm_lock, sm_lock, sobj, nextSid>>

\* Clear leaving the sessions in the registry.
ClearNothing(t) ==
    /\ pc[t] = "clear"
    /\ sm_lock = NoThread
    /\ pc' = [pc EXCEPT ![t] = IF loc[t].op = "select" THEN "info_key" ELSE "create"]
    /\ UNCHANGED <<now, budget, engine, calls, mm_lock, sm_lock, registry, loc>>

\* clear(), as select_model and create_session call it after load().
Clear(t) ==
    /\ pc[t] = "clear"
    /\ sm_lock = NoThread
    /\ sessions' = {}
    /\ pc' = [pc EXCEPT ![t] = IF loc[t].op = "select" THEN "info_key" ELSE "create"]
    /\ UNCHANGED loc
    /\ sobj' = Scrub(sobj)
    /\ UNCHANGED <<now, budget, engine, calls, mm_lock, sm_lock, nextSid>>

\* CreateEnter letting go of the lock before predictor() runs.
CreateEnterUnlocked(t) ==
    /\ pc[t] = "create"
    /\ sm_lock = NoThread
    /\ sessions' = Gc(sessions)
    /\ IF Full(Gc(sessions))
         THEN /\ Finish(t, "RuntimeError")
              /\ UNCHANGED nextSid
         ELSE /\ nextSid' = nextSid + 1
              /\ loc' = [loc EXCEPT ![t].csid = nextSid]
              /\ pc' = [pc EXCEPT ![t] = "pred"]
    /\ sobj' = Scrub(sobj)
    /\ UNCHANGED <<now, budget, engine, calls, mm_lock, sm_lock>>

\* create(): the lock, gc, the capacity test and the uuid.  The lock stays
\* held while predictor() runs.
CreateEnter(t) ==
    /\ pc[t] = "create"
    /\ sm_lock = NoThread
    /\ sessions' = Gc(sessions)
    /\ IF Full(Gc(sessions))
         THEN /\ Finish(t, "RuntimeError")
              /\ UNCHANGED <<sm_lock, nextSid>>
         ELSE /\ sm_lock' = t
              /\ nextSid' = nextSid + 1
              /\ loc' = [loc EXCEPT ![t].csid = nextSid]
              /\ pc' = [pc EXCEPT ![t] = "pred"]
    /\ sobj' = Scrub(sobj)
    /\ UNCHANGED <<now, budget, engine, calls, mm_lock>>

\* create(): the insertion, and the end of the `with`.
CreateInsert(t) ==
    /\ pc[t] = "create_ins"
    /\ sessions' = sessions \cup {loc[t].csid}
    /\ sobj' = [sobj EXCEPT ![loc[t].csid] =
                  [predictor |-> loc[t].pred, last_used |-> now, width |-> 0,
                   lock |-> NoThread]]
    /\ sm_lock' = NoThread
    /\ loc' = [loc EXCEPT ![t].ret = loc[t].csid]
    /\ pc' = [pc EXCEPT ![t] = "info_key"]
    /\ UNCHANGED <<now, budget, engine, calls, mm_lock, nextSid>>

\* Delete running _gc() before the pop, as _get() does.
DeleteAfterGc(t, sid) ==
    /\ sm_lock = NoThread
    /\ Receive(t)
    /\ LET l == [NoLoc EXCEPT !.op = "delete", !.sid = sid]
       IN  IF sid \in Gc(sessions)
             THEN /\ sessions' = Gc(sessions) \ {sid}
                  /\ FinishL(t, "none", l)
             ELSE /\ FinishL(t, "KeyError", l)
                  /\ sessions' = Gc(sessions)
    /\ sobj' = Scrub(sobj)
    /\ UNCHANGED <<now, engine, calls, mm_lock, sm_lock, nextSid>>

\* delete(): `self._sessions.pop(session_id)` under the lock, without gc.
Delete(t, sid) ==
    /\ sm_lock = NoThread
    /\ Receive(t)
    /\ LET l == [NoLoc EXCEPT !.op = "delete", !.sid = sid]
       IN  IF sid \in sessions
             THEN /\ sessions' = sessions \ {sid}
                  /\ FinishL(t, "none", l)
             ELSE /\ FinishL(t, "KeyError", l)
                  /\ UNCHANGED sessions
    /\ sobj' = Scrub(sobj)
    /\ UNCHANGED <<now, engine, calls, mm_lock, sm_lock, nextSid>>

\* Get returning the session with the registry lock still held.
GetKeepLock(t, l, found, exc) ==
    /\ sm_lock = NoThread
    /\ sessions' = Gc(sessions)
    /\ IF l.sid \notin Gc(sessions)
         THEN /\ FinishL(t, "KeyError", l)
              /\ sobj' = Scrub(sobj)
              /\ UNCHANGED sm_lock
         ELSE /\ IF exc = "none"
                   THEN /\ pc' = [pc EXCEPT ![t] = found]
                        /\ loc' = [loc EXCEPT ![t] = l]
                        /\ sm_lock' = t
                   ELSE /\ FinishL(t, exc, l)
                        /\ UNCHANGED sm_lock
              /\ sobj' = Scrub([sobj EXCEPT ![l.sid].last_used = now])
    /\ UNCHANGED <<now, engine, calls, mm_lock, nextSid>>

\* Get without the refresh of last_used.
GetNoRefresh(t, l, found, exc) ==
    /\ sm_lock = NoThread
    /\ sessions' = Gc(sessions)
    /\ IF l.sid \notin Gc(sessions)
         THEN FinishL(t, "KeyError", l)
         ELSE IF exc = "none"
                THEN /\ pc' = [pc EXCEPT ![t] = found]
                     /\ loc' = [loc EXCEPT ![t] = l]
                ELSE FinishL(t, exc, l)
    /\ sobj' = Scrub(sobj)
    /\ UNCHANGED <<now, engine, calls, mm_lock, sm_lock, nextSid>>

\* _get(): gc, the lookup, and the refresh of last_used.  l: the caller's
\* locals; found: where the caller goes after a successful lookup; exc: what
\* the caller raises right after it without touching shared state.
Get(t, l, found, exc) ==
    /\ sm_lock = NoThread
    /\ sessions' = Gc(sessions)
    /\ IF l.sid \notin Gc(sessions)
         THEN /\ FinishL(t, "KeyError", l)
              /\ sobj' = Scrub(sobj)
         ELSE /\ IF exc = "none"
                   THEN /\ pc' = [pc EXCEPT ![t] = found]
                        /\ loc' = [loc EXCEPT ![t] = l]
                   ELSE FinishL(t, exc, l)
              /\ sobj' = Scrub([sobj EXCEPT ![l.sid].last_used = now])
    /\ UNCHANGED <<now, engine, calls, mm_lock, sm_lock, nextSid>>

\* set_image(): what PIL raises on the upload.
DecodeError(data) == IF data = "bad" THEN "UnidentifiedImageError" ELSE "none"

\* POST /sessions/{sid}/image with an empty upload.
SetImageEmpty(t, sid) ==
    /\ Receive(t)
    /\ FinishL(t, "HTTP400", [NoLoc EXCEPT !.op = "set_image", !.sid = sid, !.arg = "empty"])
    /\ UNCHANGED <<now, engine, calls, mm_lock, sm_lock, registry>>

\* POST /sessions/{sid}/image: _get, then the decoding of the upload.
SetImageGet(t, sid, data) ==
    /\ Receive(t)
    /\ Get(t, [NoLoc EXCEPT !.op = "set_image", !.sid = sid, !.arg = data],
           "si_lock", DecodeError(data))

\* SetImageLock entering without waiting for the session's lock.
SetImageNoLock(t) ==
    /\ pc[t] = "si_lock"
    /\ pc' = [pc EXCEPT ![t] = "si_in"]
    /\ UNCHANGED <<now, budget, engine, calls, mm_lock, sm_lock, registry, loc>>

\* set_image(): `with s.lock` ...
SetImageLock(t) ==
    /\ pc[t] = "si_lock"
    /\ sobj[loc[t].sid].lock = NoThread
    /\ sobj' = [sobj EXCEPT ![loc[t].sid].lock = t]
    /\ pc' = [pc EXCEPT ![t] = "si_in"]
    /\ UNCHANGED <<now, budget, engine, calls, mm_lock, sm_lock, sessions, nextSid, loc>>

\* ... predictor.set_image(arr) returns, width and height are stored.
SetImageBind(t) ==
    /\ pc[t] = "si_in"
    /\ Finish(t, "none")
    /\ UNCHANGED sessions
    /\ sobj' = Scrub([sobj EXCEPT ![loc[t].sid].width = 1, ![loc[t].sid].lock = NoThread])
    /\ UNCHANGED <<now, budget, engine, calls, mm_lock, sm_lock, nextSid>>

\* PredictRequest: the prompts a client sends.  points and labels are the
\* lengths of the lists (NoList: the field is None), box: a box is given.
NoList == 0 - 1
Prompts == {"noprompt", "nolabels", "mismatch", "points", "box"}

Req(prompt) ==
    CASE prompt = "noprompt" -> [points |-> NoList, labels |-> 1, box |-> FALSE]
      [] prompt = "nolabels" -> [points |-> 1, labels |-> NoList, box |-> TRUE]
      [] prompt = "mismatch" -> [points |-> 2, labels |-> 1, box |-> FALSE]
      [] prompt = "points" -> [points |-> 1, labels |-> 1, box |-> FALSE]
      [] OTHER -> [points |-> NoList, labels |-> NoList, box |-> TRUE]

\* PromptError without the test of the labels.
PromptErrorNoLabels(prompt) ==
    IF Req(prompt).points = NoList /\ ~Req(prompt).box THEN "ValueError" ELSE "none"

\* ... or predictor.set_image(arr) raises (no memory on the device): the
\* `with` releases the lock, nothing is stored.
SetImageFault(t) ==
    /\ pc[t] = "si_in"
    /\ Finish(t, "RuntimeError")
    /\ UNCHANGED sessions
    /\ sobj' = Scrub([sobj EXCEPT ![loc[t].sid].lock = NoThread])
    /\ UNCHANGED <<now, budget, engine, calls, mm_lock, sm_lock, nextSid>>

\* predict(): the validation of the prompt.
PromptError(prompt) ==
    CASE Req(prompt).points = NoList /\ ~Req(prompt).box -> "ValueError"
      [] Req(prompt).points # NoList
           /\ (Req(prompt).labels = NoList \/ Req(prompt).labels # Req(prompt).points)
           -> "ValueError"
      [] OTHER -> "none"

\* POST /sessions/{sid}/predict: _get, then the validation.
PredictGet(t, sid, prompt) ==
    /\ Receive(t)
    /\ Get(t, [NoLoc EXCEPT !.op = "predict", !.sid = sid, !.arg = prompt],
           "pr_lock", PromptError(prompt))

\* PredictLock on one lock shared by all the sessions.
PredictLockGlobal(t) ==
    /\ pc[t] = "pr_lock"
    /\ \A s \in Sids : sobj[s].lock = NoThread
    /\ sobj' = [sobj EXCEPT ![loc[t].sid].lock = t]
    /\ pc' = [pc EXCEPT ![t] = "pr_in"]
    /\ UNCHANGED <<now, budget, engine, calls, mm_lock, sm_lock, sessions, nextSid, loc>>

\* predict(): `with s.lock` ...
PredictLock(t) ==
    /\ pc[t] = "pr_lock"
    /\ sobj[loc[t].sid].lock = NoThread
    /\ sobj' = [sobj EXCEPT ![loc[t].sid].lock = t]
    /\ pc' = [pc EXCEPT ![t] = "pr_in"]
    /\ UNCHANGED <<now, budget, engine, calls, mm_lock, sm_lock, sessions, nextSid, loc>>

\* PredictCall leaving the session locked when the predictor raises.
PredictCallKeepLock(t) ==
    /\ pc[t] = "pr_in"
    /\ UNCHANGED sessions
    /\ IF sobj[loc[t].sid].width = 0
         THEN /\ FinishL(t, "ValueError", [loc[t] EXCEPT !.cause = "RuntimeError"])
              /\ sobj' = Scrub(sobj)
         ELSE /\ \E masks \in {"empty", "some"} :
                   IF masks = "empty"
                     THEN Finish(t, "ValueError")
                     ELSE /\ pc' = [pc EXCEPT ![t] = "info_key"]
                          /\ loc' = [loc EXCEPT ![t].ret = sobj[loc[t].sid].predictor]
              /\ sobj' = Scrub([sobj EXCEPT ![loc[t].sid].lock = NoThread])
    /\ UNCHANGED <<now, budget, engine, calls, mm_lock, sm_lock, nextSid>>

\* ... predictor.predict raises RuntimeError without an image (re-raised as
\* ValueError), or returns masks: none ("model returned no masks") or some.
\* history, ret: the model of the predictor that computed the masks.
PredictCall(t) ==
    /\ pc[t] = "pr_in"
    /\ IF sobj[loc[t].sid].width = 0
         THEN FinishL(t, "ValueError", [loc[t] EXCEPT !.cause = "RuntimeError"])
         ELSE \E masks \in {"empty", "some"} :
                IF masks = "empty"
                  THEN Finish(t, "ValueError")
                  ELSE /\ pc' = [pc EXCEPT ![t] = "info_key"]
                       /\ loc' = [loc EXCEPT ![t].ret = sobj[loc[t].sid].predictor]
    /\ UNCHANGED sessions
    /\ sobj' = Scrub([sobj EXCEPT ![loc[t].sid].lock = NoThread])
    /\ UNCHANGED <<now, budget, engine, calls, mm_lock, sm_lock, nextSid>>

\* The score arrays that predictor.predict returns with its masks: one score
\* for each mask, the i-th mask being mask i.
ScoreSeqs == UNION {[1..n -> 1..MaxScore] : n \in 0..MaxMasks}

\* ArgMaxFrom keeping the later of two equal scores.
RECURSIVE ArgMaxLastFrom(_, _, _)
ArgMaxLastFrom(scores, i, best) ==
    IF i > Len(scores) THEN best
    ELSE ArgMaxLastFrom(scores, i + 1, IF scores[i] >= scores[best] THEN i ELSE best)

\* np.argmax: a scan that keeps the first of the greatest values (indices
\* from 1 here, from 0 in numpy).
RECURSIVE ArgMaxFrom(_, _, _)
ArgMaxFrom(scores, i, best) ==
    IF i > Len(scores) THEN best
    ELSE ArgMaxFrom(scores, i + 1, IF scores[i] > scores[best] THEN i ELSE best)

ArgMax(scores) == ArgMaxFrom(scores, 2, 1)

\* PredictCall with the candidates in view: predictor.predict returns
\* Len(scores) masks with these scores.  predict() raises ValueError for no
\* mask, or answers with masks[best] and scores[best]; ret is the answer
\* (with the scores it was taken from, history).
PredictScored(t, scores) ==
    /\ pc[t] = "pr_in"
    /\ sobj[loc[t].sid].width # 0
    /\ IF Len(scores) = 0
         THEN FinishL(t, "ValueError", [loc[t] EXCEPT !.ret = [scores |-> scores]])
         ELSE /\ pc' = [pc EXCEPT ![t] = "info_key"]
              /\ loc' = [loc EXCEPT ![t].ret =
                           [scores |-> scores, mask |-> ArgMax(scores),
                            score |-> scores[ArgMax(scores)]]]
    /\ UNCHANGED sessions
    /\ sobj' = Scrub([sobj EXCEPT ![loc[t].sid].lock = NoThread])
    /\ UNCHANGED <<now, budget, engine, calls, mm_lock, sm_lock, nextSid>>

\* ------------------------------------------------------------ requests
\* The ids a client can send: the ones generated so far, and one that never was.
SidArgs == (1..(nextSid - 1)) \cup {0}

\* GET /health
Health(t) ==
    /\ Begin(t, [NoLoc EXCEPT !.op = "health"], "info_key")
    /\ UNCHANGED <<now, engine, calls, mm_lock, sm_lock, registry>>

\* POST /model/select without a model_key, or with an empty one.
SelectNoKey(t) ==
    /\ Receive(t)
    /\ FinishL(t, "HTTP400", [NoLoc EXCEPT !.op = "select"])
    /\ UNCHANGED <<now, engine, calls, mm_lock, sm_lock, registry>>

\* CallLoad of a handler that calls clear() whether load() raised or not.
CallLoadClearAlways(t, l) ==
    /\ Receive(t)
    /\ IF LoadCheck(l.key) # "none"
         THEN /\ FinishL(t, LoadCheck(l.key), l)
              /\ sessions' = {}
              /\ sobj' = Scrub(sobj)
              /\ UNCHANGED nextSid
         ELSE /\ pc' = [pc EXCEPT ![t] = "load_lock"]
              /\ loc' = [loc EXCEPT ![t] = [l EXCEPT !.lkey = l.key]]
              /\ UNCHANGED registry
    /\ calls' = LoadCalled(l.key)
    /\ UNCHANGED <<now, engine, mm_lock, sm_lock>>

\* A handler calls load(k): load()'s checks before the lock.
CallLoad(t, l) ==
    /\ Receive(t)
    /\ IF LoadCheck(l.key) # "none"
         THEN FinishL(t, LoadCheck(l.key), l)
         ELSE /\ pc' = [pc EXCEPT ![t] = "load_lock"]
              /\ loc' = [loc EXCEPT ![t] = [l EXCEPT !.lkey = l.key]]
    /\ calls' = LoadCalled(l.key)
    /\ UNCHANGED <<now, engine, mm_lock, sm_lock, registry>>

\* POST /model/select {model_key: k}
SelectModel(t, k) == CallLoad(t, [NoLoc EXCEPT !.op = "select", !.key = k])

\* POST /sessions {model_key: k}
CreateSessionWithKey(t, k) ==
    /\ CallLoad(t, [NoLoc EXCEPT !.op = "create_session", !.key = k])

\* POST /sessions without a model_key
CreateSession(t) ==
    /\ Begin(t, [NoLoc EXCEPT !.op = "create_session"], "create")
    /\ UNCHANGED <<now, engine, calls, mm_lock, sm_lock, registry>>

Next ==
    \/ Tick
    \/ \E t \in Threads :
         \/ Health(t)
         \/ SelectNoKey(t)
         \/ \E k \in Keys : SelectModel(t, k)
         \/ \E k \in Keys : CreateSessionWithKey(t, k)
         \/ CreateSession(t)
         \/ \E sid \in SidArgs : SetImageEmpty(t, sid)
         \/ \E sid \in SidArgs, data \in {"bad", "good"} : SetImageGet(t, sid, data)
         \/ \E sid \in SidArgs, prompt \in Prompts : PredictGet(t, sid, prompt)
         \/ \E sid \in SidArgs : Delete(t, sid)
         \/ LoadEnter(t)
         \/ LoadBuildOk(t)
         \/ LoadBuildFail(t)
         \/ LoadSetKey(t)
         \/ LoadSetDevice(t)
         \/ PredictorReadKey(t)
         \/ PredictorConstruct(t)
         \/ InfoReadKey(t)
         \/ InfoReadDevice(t)
         \/ Count(t)
         \/ Clear(t)
         \/ CreateEnter(t)
         \/ CreateInsert(t)
         \/ SetImageLock(t)
         \/ SetImageBind(t)
         \/ SetImageFault(t)
         \/ PredictLock(t)
         \/ PredictCall(t)

Spec == Init /\ [][Next]_vars

\* A step of the handler that thread t is running.  The thread is scheduled
\* again and again, and every call of build_sam2 and of the predictor comes
\* to an end, by returning or by raising.
Step(t) ==
    \/ LoadEnter(t)
    \/ LoadBuildOk(t)
    \/ LoadBuildFail(t)
    \/ LoadSetKey(t)
    \/ LoadSetDevice(t)
    \/ PredictorReadKey(t)
    \/ PredictorConstruct(t)
    \/ InfoReadKey(t)
    \/ InfoReadDevice(t)
    \/ Count(t)
    \/ Clear(t)
    \/ CreateEnter(t)
    \/ CreateInsert(t)
    \/ SetImageLock(t)
    \/ SetImageBind(t)
    \/ SetImageFault(t)
    \/ PredictLock(t)
    \/ PredictCall(t)

\* The handlers that reach the ModelManager: /health, /model/select and
\* /sessions.
NextEngine ==
    \E t \in Threads :
         \/ Health(t)
         \/ SelectNoKey(t)
         \/ \E k \in Keys : SelectModel(t, k)
         \/ \E k \in Keys : CreateSessionWithKey(t, k)
         \/ CreateSession(t)
         \/ LoadEnter(t)
         \/ LoadBuildOk(t)
         \/ LoadBuildFail(t)
         \/ LoadSetKey(t)
         \/ LoadSetDevice(t)
         \/ PredictorReadKey(t)
         \/ PredictorConstruct(t)
         \/ InfoReadKey(t)
         \/ InfoReadDevice(t)
         \/ Count(t)
         \/ Clear(t)
         \/ CreateEnter(t)
         \/ CreateInsert(t)

SpecEngine == InitWith(MaxReqs) /\ [][NextEngine]_vars

\* The handlers of the sessions, with the default model and the passing of
\* time; /model/select of the default model brings clear(), and of a key
\* that cannot be loaded the exceptions of load().
NextRegistry ==
    \/ Tick
    \/ \E t \in Threads :
         \/ Health(t)
         \/ \E k \in {DEFAULT_MODEL_KEY} \cup (Keys \ Downloaded) : SelectModel(t, k)
         \/ CreateSession(t)
         \/ \E sid \in SidArgs : SetImageEmpty(t, sid)
         \/ \E sid \in SidArgs, data \in {"bad", "good"} : SetImageGet(t, sid, data)
         \/ \E sid \in SidArgs, prompt \in Prompts : PredictGet(t, sid, prompt)
         \/ \E sid \in SidArgs : Delete(t, sid)
         \/ LoadEnter(t)
         \/ LoadBuildOk(t)
         \/ LoadBuildFail(t)
         \/ LoadSetKey(t)
         \/ LoadSetDevice(t)
         \/ PredictorReadKey(t)
         \/ PredictorConstruct(t)
         \/ InfoReadKey(t)
         \/ InfoReadDevice(t)
         \/ Count(t)
         \/ Clear(t)
         \/ CreateEnter(t)
         \/ CreateInsert(t)
         \/ SetImageLock(t)
         \/ SetImageBind(t)
         \/ SetImageFault(t)
         \/ PredictLock(t)
         \/ PredictCall(t)

SpecRegistry == InitWith(MaxReqs) /\ [][NextRegistry]_vars

\* SpecRegistry with threads that keep being scheduled.
SpecLive == SpecRegistry /\ \A t \in Threads : WF_vars(Step(t))

\* _gc() on any registry: any set of sessions, also more than max_sessions,
\* with any last_used up to now; the ids are in the order of insertion.
InitGc ==
    /\ now \in 0..MaxTime
    /\ budget = MaxReqs
    /\ model_key = None
    /\ device = None
    /\ model = 0
    /\ keyLoad = 0
    /\ devLoad = 0
    /\ built = <<>>
    /\ calls = [key |-> None, n |-> 0, ok |-> FALSE, again |-> FALSE]
    /\ mm_lock = NoThread
    /\ sm_lock = NoThread
    /\ sessions \in SUBSET Sids
    /\ sobj \in [Sids -> {[NoSession EXCEPT !.last_used = l] : l \in 0..now}]
    /\ nextSid = MaxReqs + 1
    /\ pc = [t \in Threads |-> "idle"]
    /\ loc = [t \in Threads |-> NoLoc]

NextGc == \E t \in Threads : CountDirect(t)

SpecGc == InitGc /\ [][NextGc]_vars

\* predict() on a session with an image: the server after /sessions and
\* /sessions/1/image, and the predict requests on this session.
InitSelect ==
    /\ now = 0
    /\ budget = MaxReqs
    /\ model_key = DEFAULT_MODEL_KEY
    /\ device = "dev"
    /\ model = 1
    /\ keyLoad = 1
    /\ devLoad = 1
    /\ built = <<DEFAULT_MODEL_KEY>>
    /\ calls = [key |-> DEFAULT_MODEL_KEY, n |-> 1, ok |-> TRUE, again |-> FALSE]
    /\ mm_lock = NoThread
    /\ sm_lock = NoThread
    /\ sessions = {1}
    /\ sobj = [s \in Sids |-> IF s = 1 THEN [predictor |-> 1, last_used |-> 0,
                                             width |-> 1, lock |-> NoThread]
                              ELSE NoSession]
    /\ nextSid = 2
    /\ pc = [t \in Threads |-> "idle"]
    /\ loc = [t \in Threads |-> NoLoc]

NextSelect ==
    \E t \in Threads :
         \/ \E prompt \in {"points", "box"} : PredictGet(t, 1, prompt)
         \/ PredictLock(t)
         \/ \E scores \in ScoreSeqs : PredictScored(t, scores)
         \/ InfoReadKey(t)
         \/ InfoReadDevice(t)

SpecSelect == InitSelect /\ [][NextSelect]_vars

\* predict() and a switch of the model: the server after /sessions and
\* /sessions/1/image, the predict requests and /model/select.
NextSwitch ==
    \E t \in Threads :
         \/ \E sid \in SidArgs, prompt \in {"points", "box"} : PredictGet(t, sid, prompt)
         \/ \E k \in Keys : SelectModel(t, k)
         \/ LoadEnter(t)
         \/ LoadBuildOk(t)
         \/ LoadBuildFail(t)
         \/ LoadSetKey(t)
         \/ LoadSetDevice(t)
         \/ Clear(t)
         \/ PredictLock(t)
         \/ PredictCall(t)
         \/ InfoReadKey(t)
         \/ InfoReadDevice(t)

SpecSwitch == InitSelect /\ [][NextSwitch]_vars

\* The handlers of the sessions alone, on a clock that stands still:
\* /sessions without a key, and set_image, predict and delete.
NextSessions ==
    \E t \in Threads :
         \/ CreateSession(t)
         \/ \E sid \in SidArgs : SetImageEmpty(t, sid)
         \/ \E sid \in SidArgs, data \in {"bad", "good"} : SetImageGet(t, sid, data)
         \/ \E sid \in SidArgs, prompt \in Prompts : PredictGet(t, sid, prompt)
         \/ \E sid \in SidArgs : Delete(t, sid)
         \/ LoadEnter(t)
         \/ LoadBuildOk(t)
         \/ LoadBuildFail(t)
         \/ LoadSetKey(t)
         \/ LoadSetDevice(t)
         \/ PredictorReadKey(t)
         \/ PredictorConstruct(t)
         \/ InfoReadKey(t)
         \/ InfoReadDevice(t)
         \/ CreateEnter(t)
         \/ CreateInsert(t)
         \/ SetImageLock(t)
         \/ SetImageBind(t)
         \/ SetImageFault(t)
         \/ PredictLock(t)
         \/ PredictCall(t)

SpecSessions == InitWith(MaxReqsSessions) /\ [][NextSessions]_vars


\* ============================================================ claims
\* A session whose last access is at most ttl_s old.
Live(s) == now - sobj[s].last_used <= ttl_s

\* Thread t is inside predictor.set_image or predictor.predict.
InPredictor(t) == pc[t] \in {"si_in", "pr_in"}

\* In this step thread t receives a request of kind op.
Received(t, op) == budget' = budget - 1 /\ pc'[t] # pc[t] /\ loc'[t].op = op
ReceivedAny(t, ops) == \E op \in ops : Received(t, op)

\* In this step thread t makes create()'s gc and capacity test.
CreateTested(t) == pc[t] = "create" /\ pc'[t] # "create"

\* C1: whenever no thread is inside the registry's lock, the registry holds
\* at most max_sessions sessions.
C1_AtMostMaxSessions ==
    sm_lock = NoThread => Cardinality(sessions) <= max_sessions

\* C1 witness: the registry is at capacity, nobody holds its lock, and a
\* further create() has been turned down.
C1_Witness ==
    /\ sm_lock = NoThread
    /\ Cardinality(sessions) = max_sessions
    /\ \E t \in Threads : pc[t] = "done" /\ loc[t].op = "create_session"
                          /\ loc[t].exc = "RuntimeError"

\* C2: at most one thread at a time is inside predictor.set_image or
\* predictor.predict of one session.
C2_OneCallPerSession ==
    \A t, u \in Threads :
        (t # u /\ InPredictor(t) /\ InPredictor(u)) => loc[t].sid # loc[u].sid

\* C2 witness: one thread is inside a predictor call of a session while
\* another one waits for the lock of the same session.
C2_Witness ==
    \E t, u \in Threads :
        /\ InPredictor(t)
        /\ pc[u] \in {"si_lock", "pr_lock"}
        /\ loc[u].sid = loc[t].sid
        /\ sobj[loc[t].sid].lock = t

\* C3, as claimed: a request that addresses a session in the dict whose last
\* access is more than ttl_s old fails with KeyError (NotFound), be it
\* set_image, predict or delete, and count() leaves it out.
C3_ExpiredIsNotFound ==
    [][\A t \in Threads :
         /\ \A s \in sessions :
              ( /\ ~Live(s)
                /\ ReceivedAny(t, {"set_image", "predict", "delete"})
                /\ loc'[t].sid = s
                /\ loc'[t].arg # "empty" )
              => (pc'[t] = "done" /\ loc'[t].exc = "KeyError")
         /\ (pc[t] = "count" /\ pc'[t] = "done")
              => ( /\ loc'[t].ret = Cardinality({s \in sessions : Live(s)})
                   /\ \A s \in sessions : ~Live(s) => s \notin sessions' )]_vars

\* C4, as claimed: with max_sessions = 2, a create() that finds the two
\* sessions A and B (A the older one, none expired) evicts A and goes on to
\* insert its own session.
C4_ThirdCreateEvictsOldest ==
    [][\A t \in Threads : \A a, b \in Sids :
         ( /\ CreateTested(t)
           /\ max_sessions = 2
           /\ a < b /\ sessions = {a, b} /\ Live(a) /\ Live(b)
           /\ sobj[a].last_used <= sobj[b].last_used )
         => (pc'[t] = "pred" /\ sessions' = {b})]_vars

\* C4, amended: with max_sessions = 2, a create() that finds the two
\* sessions A and B (none expired) raises RuntimeError("too many sessions")
\* and leaves exactly {A, B} in the registry.
C4_ThirdCreateRejected ==
    [][\A t \in Threads : \A a, b \in Sids :
         ( /\ CreateTested(t)
           /\ max_sessions = 2
           /\ a < b /\ sessions = {a, b} /\ Live(a) /\ Live(b)
           /\ sobj[a].last_used <= sobj[b].last_used )
         => ( /\ pc'[t] = "done" /\ loc'[t].exc = "RuntimeError"
              /\ sessions' = {a, b} )]_vars

\* C4 witness: the sessions 1 and 2 were created in this order, none has
\* expired, and the third create() has been turned down.
C4_Witness ==
    /\ sessions = {1, 2}
    /\ Live(1) /\ Live(2)
    /\ sobj[1].last_used <= sobj[2].last_used
    /\ nextSid = 3
    /\ \E t \in Threads : pc[t] = "done" /\ loc[t].op = "create_session"
                          /\ loc[t].exc = "RuntimeError"

\* C5: a create() that finds max_sessions or more sessions that have not
\* expired raises RuntimeError at once: it ends in the step of its capacity
\* test with the registry lock free, generates no id, starts no predictor()
\* and no load, and removes none of the sessions that have not expired.
C5_FullCreateFailsAtOnce ==
    [][\A t \in Threads :
         ( /\ CreateTested(t)
           /\ Cardinality({s \in sessions : Live(s)}) >= max_sessions )
         => ( /\ pc'[t] = "done" /\ loc'[t].exc = "RuntimeError"
              /\ loc'[t].status = 500
              /\ sm_lock' = NoThread
              /\ nextSid' = nextSid
              /\ mm_lock' = mm_lock /\ built' = built /\ calls' = calls
              /\ {s \in sessions : Live(s)} \subseteq sessions'
              /\ sessions' \subseteq sessions )]_vars

\* C5 witness: a create() has been turned down; the id it would have used
\* is still the next one.
C5_Witness ==
    \E t \in Threads :
        /\ pc[t] = "done" /\ loc[t].op = "create_session"
        /\ loc[t].exc = "RuntimeError" /\ loc[t].ret = 0
        /\ nextSid = max_sessions + 1
        /\ sm_lock = NoThread


\* C6, as claimed: in a run of load(k) calls for one valid key k, with no
\* load of another key in between, build_sam2 is called at most once.
C6_BuiltOnce == calls.n <= 1

\* C6, amended: in such a run, once build_sam2 has returned a model for k it
\* is not called again (a call that raised is followed by another call).
C6_NotBuiltAgain == ~calls.again

\* C6 witness: build_sam2 was called once and returned a model, and two
\* select requests for that key have been served.
C6_Witness ==
    /\ calls.ok /\ calls.n = 1
    /\ \A t \in Threads : /\ pc[t] = "done" /\ loc[t].op = "select"
                          /\ loc[t].key = calls.key /\ loc[t].exc = "none"

\* C7, as claimed: whenever a thread is about to make a lock-free read of
\* the ModelManager (info(), the key read of predictor()), the model is set
\* iff the key is, and key, device and model were stored by one load.
C7_TripleOfOneLoad ==
    (\E t \in Threads : pc[t] \in {"info_key", "info_dev", "pred"})
    => ( /\ (model # 0 <=> model_key # None)
         /\ keyLoad = model
         /\ devLoad = model )

\* In this step a load() called by the handler of thread t raises.
HandlerLoadRaised(t) ==
    /\ pc'[t] = "done"
    /\ loc'[t].op \in {"select", "create_session"}
    /\ \/ ReceivedAny(t, {"select", "create_session"})
          /\ loc'[t].exc \in {"ValueError", "FileNotFoundError"}
       \/ pc[t] = "load_build" /\ ~loc[t].inPred

\* C8: when load() raises (unknown key, missing checkpoint, build_sam2
\* raising), key, device and model are what they were and the thread does
\* not hold the lock; where build_sam2 raised, under the lock, they are the
\* triple of one earlier load, or all unset.
C8_FailedLoadKeepsModel ==
    [][\A t \in Threads :
         /\ HandlerLoadRaised(t)
              => ( /\ model_key' = model_key /\ device' = device /\ model' = model
                   /\ mm_lock' # t )
         /\ (pc[t] = "load_build" /\ pc'[t] = "done")
              => ( /\ model_key' = model_key /\ device' = device /\ model' = model
                   /\ keyLoad = model /\ devLoad = model
                   /\ (model # 0 <=> model_key # None)
                   /\ mm_lock = t /\ mm_lock' = NoThread )]_vars

\* C8 witness: build_sam2 raised in a select of another key than the loaded
\* one, which is still there.
C8_Witness ==
    \E t \in Threads :
        /\ pc[t] = "done" /\ loc[t].op = "select" /\ loc[t].exc = "BuildError"
        /\ model # 0 /\ model_key # loc[t].key /\ built[model] = model_key
        /\ mm_lock = NoThread

\* C9, as claimed: /model/select with a key outside the catalog is answered
\* with 404.
C9_UnknownKeyIs404 ==
    \A t \in Threads :
        ( /\ pc[t] = "done" /\ loc[t].op = "select"
          /\ loc[t].key # None /\ loc[t].key \notin Catalog )
        => loc[t].status = 404

\* C10: a /model/select or /sessions request whose load() raises for an
\* unknown key or a missing checkpoint ends there: key, device and model and
\* the registry are unchanged (clear() and create() are not called).
C10_FailedLoadChangesNothing ==
    [][\A t \in Threads :
         ( /\ ReceivedAny(t, {"select", "create_session"})
           /\ loc'[t].key # None
           /\ loc'[t].key \notin Downloaded )
         => ( /\ pc'[t] = "done"
              /\ loc'[t].exc \in {"ValueError", "FileNotFoundError"}
              /\ UNCHANGED <<model_key, device, model>>
              /\ UNCHANGED <<sessions, sobj, nextSid>> )]_vars

\* C10 witness: a request with an unknown key or a missing checkpoint has
\* been turned down and the registry still holds a session.
C10_Witness ==
    \E t \in Threads :
        /\ pc[t] = "done" /\ loc[t].op \in {"select", "create_session"}
        /\ loc[t].exc \in {"ValueError", "FileNotFoundError"}
        /\ sessions # {}
        /\ model # 0

\* The prompt has neither points nor box, or has points without labels of
\* the same length.
BadPrompt(prompt) ==
    \/ Req(prompt).points = NoList /\ ~Req(prompt).box
    \/ Req(prompt).points # NoList /\ Req(prompt).labels # Req(prompt).points

\* C11: predict on a session that is absent or expired fails with KeyError
\* (404) whatever the prompt; on an existing session a prompt with neither
\* points nor box, or with points and no labels of the same length, fails
\* with ValueError (400) in the step of the lookup: the thread never waits
\* for or takes the session's lock and never calls the predictor.
C11_BadPromptOrNotFound ==
    [][\A t \in Threads : \A sid \in SidArgs : \A prompt \in Prompts :
         PredictGet(t, sid, prompt) =>
           /\ (sid \notin sessions \/ ~Live(sid))
                => ( /\ pc'[t] = "done" /\ loc'[t].exc = "KeyError"
                     /\ loc'[t].status = 404 )
           /\ (sid \in sessions /\ Live(sid) /\ BadPrompt(prompt))
                => ( /\ pc'[t] = "done" /\ loc'[t].exc = "ValueError"
                     /\ loc'[t].status = 400
                     /\ sobj'[sid].lock = sobj[sid].lock
                     /\ sobj'[sid].lock # t )]_vars

\* C11 witness: both threads were turned down with ValueError on a session
\* that exists, one for points without labels, one for labels of another
\* length than the points.
C11_Witness ==
    \E t, u \in Threads :
        /\ pc[t] = "done" /\ loc[t].op = "predict" /\ loc[t].arg = "nolabels"
        /\ pc[u] = "done" /\ loc[u].op = "predict" /\ loc[u].arg = "mismatch"
        /\ loc[t].exc = "ValueError" /\ loc[u].exc = "ValueError"
        /\ loc[t].sid \in sessions /\ loc[u].sid = loc[t].sid

\* C12: when predictor.predict is called on a session without an image, the
\* request ends with ValueError raised from the predictor's RuntimeError
\* (400, not the 404 of a missing session), the session's lock is released,
\* and the registry and the session (predictor, last_used, width) are what
\* they were.
C12_NoImageIsUsageError ==
    [][\A t \in Threads :
         (pc[t] = "pr_in" /\ pc'[t] # "pr_in" /\ sobj[loc[t].sid].width = 0)
         => ( /\ pc'[t] = "done"
              /\ loc'[t].exc = "ValueError" /\ loc'[t].cause = "RuntimeError"
              /\ loc'[t].status = 400
              /\ sobj[loc[t].sid].lock = t
              /\ sobj'[loc[t].sid].lock = NoThread
              /\ sessions' = sessions
              /\ loc[t].sid \in sessions
                   => ( /\ sobj'[loc[t].sid].predictor = sobj[loc[t].sid].predictor
                        /\ sobj'[loc[t].sid].last_used = sobj[loc[t].sid].last_used
                        /\ sobj'[loc[t].sid].width = 0 ) )]_vars

\* C12 witness: a predict on a session without an image was turned down,
\* and after a set_image a predict on the same session has returned a mask.
C12_Witness ==
    \E t, u \in Threads :
        /\ pc[t] = "done" /\ loc[t].op = "predict"
        /\ loc[t].exc = "ValueError" /\ loc[t].cause = "RuntimeError"
        /\ pc[u] = "done" /\ loc[u].op = "predict" /\ loc[u].exc = "none"
        /\ loc[u].sid = loc[t].sid /\ loc[t].sid \in sessions
        /\ sobj[loc[t].sid].width = 1 /\ sobj[loc[t].sid].lock = NoThread

\* C13, as claimed: while a handler is between its load(), which built and
\* stored a new model, and its clear(), the registry holds no session whose
\* predictor was constructed on that model: no create() inserts a session
\* for the clear() to remove.
C13_SwitchIsAtomic ==
    \A t \in Threads :
        (pc[t] = "clear" /\ loc[t].mine # 0)
        => \A s \in sessions : sobj[s].predictor # loc[t].mine

\* Thread t holds no lock of the ModelManager, the SessionManager or a session.
HoldsNothing(t) ==
    /\ mm_lock # t
    /\ sm_lock # t
    /\ \A s \in Sids : sobj[s].lock # t

\* The positions of a handler between two calls of the managers, or after
\* the last one.
BetweenCalls ==
    {"idle", "done", "clear", "create", "info_key", "info_dev", "count", "si_lock", "pr_lock"}

\* C14: a thread whose call of load(), clear(), create(), count(), info(),
\* _get(), set_image(), predict() or delete() has returned or raised holds
\* no lock; after the load() inside predictor() it does not hold the
\* ModelManager's lock; and a create() that ends with an exception raised in
\* predictor() releases the registry lock and inserts nothing.
C14_LocksReleasedOnEveryExit ==
    /\ [](\A t \in Threads :
            /\ pc[t] \in BetweenCalls => HoldsNothing(t)
            /\ pc[t] = "pred_lock" => mm_lock # t)
    /\ [][\A t \in Threads :
            (loc[t].csid # 0 /\ pc'[t] = "done" /\ loc'[t].exc # "none")
            => ( /\ sm_lock = t /\ sm_lock' = NoThread /\ mm_lock' # t
                 /\ sessions' = sessions
                 /\ loc[t].csid \notin sessions' )]_vars

\* C14 witness: a /sessions request without a key ended with the exception
\* of build_sam2, raised inside create(): its id was generated, the
\* registry is empty and the locks are free.
C14_Witness ==
    \E t \in Threads :
        /\ pc[t] = "done" /\ loc[t].op = "create_session" /\ loc[t].key = None
        /\ loc[t].exc = "BuildError"
        /\ nextSid = 2 /\ sessions = {}
        /\ sm_lock = NoThread /\ mm_lock = NoThread

\* Thread t is inside create(), in its call of predictor().
InCreatePredictor(t) ==
    /\ loc[t].csid # 0
    /\ pc[t] \in {"pred", "load_lock", "load_build", "load_setkey", "load_setdev", "pred_lock"}

\* C15, as claimed: while a thread is inside create()'s call of predictor(),
\* a count() called by another thread can run to its end.
C15_CountNotBlockedByCreate ==
    \A t, u \in Threads :
        (pc[t] = "count" /\ InCreatePredictor(u)) => ENABLED Count(t)

\* C16: a thread that waits for the lock of a session can take it as soon
\* as that lock is free, whatever the other threads hold; and two threads
\* inside predictor calls of two different sessions hold each its own
\* session's lock and neither the registry's nor the ModelManager's.
C16_DifferentSessionsInParallel ==
    \A t \in Threads :
        /\ (pc[t] = "si_lock" /\ sobj[loc[t].sid].lock = NoThread) => ENABLED SetImageLock(t)
        /\ (pc[t] = "pr_lock" /\ sobj[loc[t].sid].lock = NoThread) => ENABLED PredictLock(t)
        /\ \A u \in Threads :
              (InPredictor(t) /\ InPredictor(u) /\ loc[t].sid # loc[u].sid)
              => ( /\ sobj[loc[t].sid].lock = t /\ sobj[loc[u].sid].lock = u
                   /\ sm_lock \notin {t, u} /\ mm_lock \notin {t, u} )

\* C16 witness: the two threads are inside predictor.predict of two
\* different sessions at the same time, each holding its session's lock.
C16_Witness ==
    \E t, u \in Threads :
        /\ pc[t] = "pr_in" /\ pc[u] = "pr_in"
        /\ loc[t].sid # loc[u].sid
        /\ {loc[t].sid, loc[u].sid} \subseteq sessions
        /\ sobj[loc[t].sid].lock = t /\ sobj[loc[u].sid].lock = u

\* C17: delete(id) of an id that is not in the registry raises KeyError
\* (404) and changes nothing; of an id that is there it removes exactly this
\* entry, and every other session stays, with its predictor, last_used,
\* width and lock.
C17_DeleteRemovesOnlyItsEntry ==
    [][\A t \in Threads : \A sid \in SidArgs :
         Delete(t, sid) =>
           /\ sid \notin sessions
                => ( /\ loc'[t].exc = "KeyError" /\ loc'[t].status = 404
                     /\ sessions' = sessions /\ sobj' = sobj /\ nextSid' = nextSid )
           /\ sid \in sessions
                => ( /\ loc'[t].exc = "none" /\ loc'[t].status = 200
                     /\ sessions' = sessions \ {sid}
                     /\ \A s \in sessions \ {sid} : sobj'[s] = sobj[s] )]_vars

\* C17 witness: a delete has removed the first session; the second one,
\* older than the ttl, is still in the registry.
C17_Witness ==
    \E t \in Threads :
        /\ pc[t] = "done" /\ loc[t].op = "delete" /\ loc[t].exc = "none"
        /\ loc[t].sid = 1
        /\ sessions = {2} /\ ~Live(2)

\* C18: predictor() constructs its predictor on the model that is the
\* ModelManager's at that moment, which is not None and whose key and device
\* have been stored by the load that built it (no load is under way); and
\* a predictor() that finds no model loads DEFAULT_MODEL_KEY first.
C18_PredictorOnLoadedModel ==
    [][\A t \in Threads :
         /\ (pc[t] = "pred_lock" /\ pc'[t] # "pred_lock")
              => ( /\ model # 0 /\ model_key # None /\ device # None
                   /\ keyLoad = model /\ devLoad = model
                   /\ built[model] = model_key
                   /\ mm_lock = NoThread
                   /\ loc'[t].pred = model /\ model' = model )
         /\ (pc[t] = "pred" /\ pc'[t] # "pred" /\ model = 0)
              => ( /\ pc'[t] = "load_lock" /\ loc'[t].lkey = DEFAULT_MODEL_KEY
                   /\ loc'[t].pred = 0 )]_vars

\* C18 witness: a predictor() loaded one key, a load() of another thread
\* then replaced the model, and the predictor was constructed on the model
\* of that load.
C18_Witness ==
    \E t \in Threads :
        /\ pc[t] = "create_ins"
        /\ loc[t].pred = model /\ model # 0
        /\ built[loc[t].pred] # loc[t].lkey
        /\ mm_lock = NoThread

\* C19, as claimed: POST /sessions/{id}/image on an existing session with a
\* non-empty upload that is not an image is answered with a 4xx status.
C19_UndecodableImageIs400 ==
    \A t \in Threads :
        ( /\ pc[t] = "done" /\ loc[t].op = "set_image"
          /\ loc[t].arg = "bad" /\ loc[t].exc # "KeyError" )
        => loc[t].status \in 400..499

\* C20: a thread about to take a session's lock holds neither the registry
\* lock nor the ModelManager's lock; a thread inside predictor.set_image or
\* predictor.predict holds the lock of its session and no other lock, and
\* a session's lock is held nowhere else; the ModelManager's lock is held
\* only inside load(), from the no-op test to the last store (predictor()
\* constructs under it in one step).
C20_LockDiscipline ==
    \A t \in Threads :
        /\ pc[t] \in {"si_lock", "pr_lock"} => (sm_lock # t /\ mm_lock # t)
        /\ InPredictor(t)
             => ( /\ sobj[loc[t].sid].lock = t
                  /\ \A s \in Sids \ {loc[t].sid} : sobj[s].lock # t
                  /\ sm_lock # t /\ mm_lock # t )
        /\ \A s \in Sids : sobj[s].lock = t => (InPredictor(t) /\ loc[t].sid = s)
        /\ mm_lock = t => pc[t] \in {"load_build", "load_setkey", "load_setdev"}

\* C20 witness: one thread is inside predictor.predict holding its
\* session's lock while the other holds the registry lock inside create().
C20_Witness ==
    \E t, u \in Threads :
        /\ pc[t] = "pr_in" /\ sobj[loc[t].sid].lock = t
        /\ loc[t].sid \in sessions
        /\ pc[u] = "create_ins" /\ sm_lock = u

\* C21: every request that a thread has started comes to its end, in every
\* interleaving in which the threads keep being scheduled: no thread waits
\* for ever for the registry's lock, the ModelManager's lock or a session's.
C21_EveryRequestReturns ==
    \A t \in Threads : (pc[t] \notin {"idle", "done"}) ~> (pc[t] = "done")

\* C21 witness: one thread holds the registry lock and, inside it, the
\* ModelManager's lock (create() building the model) while the other waits
\* for the registry lock.
C21_Witness ==
    \E t, u \in Threads :
        /\ pc[u] = "load_build" /\ sm_lock = u /\ mm_lock = u
        /\ pc[t] \in {"count", "clear", "create"}

\* The sessions of the registry that are not older than the ttl.
Fresh == {s \in sessions : now - sobj[s].last_used <= ttl_s}

\* C22: _gc() removes every session with now - last_used > ttl_s and keeps
\* one with now - last_used = ttl_s; if at most max_sessions are left it
\* removes nothing else, otherwise it leaves exactly max_sessions of them,
\* and every session it removed in this second phase has a last_used no
\* greater than that of every session that stays.
C22_GcTwoPhases ==
    [][\A t \in Threads :
         CountDirect(t) =>
           /\ sessions' \subseteq Fresh
           /\ Cardinality(sessions') <= max_sessions
           /\ Cardinality(Fresh) <= max_sessions => sessions' = Fresh
           /\ Cardinality(Fresh) > max_sessions
                => ( /\ Cardinality(sessions') = max_sessions
                     /\ \A a \in Fresh \ sessions' : \A b \in sessions' :
                           sobj[a].last_used <= sobj[b].last_used )
           /\ loc'[t].ret = Cardinality(sessions')]_vars

\* C22 witness: a gc that found more than max_sessions sessions has left
\* max_sessions of them, one exactly ttl_s old, and has removed one that
\* had not expired.
C22_Witness ==
    \E t \in Threads : \E a, b \in Sids :
        /\ pc[t] = "done" /\ loc[t].op = "count" /\ loc[t].ret = max_sessions
        /\ Cardinality(sessions) = max_sessions
        /\ a \in sessions /\ now - sobj[a].last_used = ttl_s
        /\ b \in loc[t].arg \ sessions /\ now - sobj[b].last_used <= ttl_s
        /\ sobj[b].last_used <= sobj[a].last_used

\* C23: when predictor.predict returns candidates, predict() answers with
\* a mask whose score no other candidate exceeds and no earlier candidate
\* equals, and with the score of this very mask; when it returns none,
\* predict() raises ValueError("model returned no masks") (400).
C23_BestMaskFirstOnTies ==
    [][\A t \in Threads : \A scores \in ScoreSeqs :
         PredictScored(t, scores) =>
           /\ Len(scores) = 0
                => ( /\ pc'[t] = "done" /\ loc'[t].exc = "ValueError"
                     /\ loc'[t].cause = "none" /\ loc'[t].status = 400 )
           /\ Len(scores) > 0
                => ( /\ pc'[t] = "info_key" /\ loc'[t].exc = "none"
                     /\ loc'[t].ret.mask \in 1..Len(scores)
                     /\ \A i \in 1..Len(scores) : scores[i] <= scores[loc'[t].ret.mask]
                     /\ \A i \in 1..(loc'[t].ret.mask - 1) :
                           scores[i] < scores[loc'[t].ret.mask]
                     /\ loc'[t].ret.score = scores[loc'[t].ret.mask] )]_vars

\* C23 witness: a predict request was answered with the second of three
\* candidates, the first of the two that share the highest score.
C23_Witness ==
    \E t \in Threads :
        /\ pc[t] = "done" /\ loc[t].op = "predict" /\ loc[t].exc = "none"
        /\ loc[t].status = 200
        /\ loc[t].ret.scores = <<1, 2, 2>>
        /\ loc[t].ret.mask = 2 /\ loc[t].ret.score = 2

\* C24, as claimed: once a model is loaded, the load() that predictor()
\* makes inside create() builds no model in its place: the model changes
\* only in a load() called by a handler.
C24_PredictorNeverReplaces ==
    [][\A t \in Threads :
         (loc[t].inPred /\ model # 0 /\ pc[t] = "load_build") => model' = model]_vars

\* C25, as claimed: the model key in the answer of a successful predict is
\* the key of the model on which the session's predictor, which computed
\* the mask, was constructed.
C25_InfoOfThePredictorsModel ==
    \A t \in Threads :
        (pc[t] = "done" /\ loc[t].op = "predict" /\ loc[t].exc = "none")
        => loc[t].ikey = built[loc[t].ret]

\* No request is being served.
Quiescent == \A t \in Threads : Idle(t)

\* C26: whenever no request is being served, the predictor of every session
\* in the registry was constructed on the model that is loaded now.
C26_NoStaleSessionAtRest ==
    Quiescent => \A s \in sessions : sobj[s].predictor = model

\* C26 witness: no request is being served, a second model has replaced the
\* first one, and the registry holds a session, built on the second model.
C26_Witness ==
    /\ Quiescent
    /\ model = 2
    /\ \E s \in sessions : sobj[s].predictor = 2

\* In this step thread t looks session s up for set_image or predict.
LooksUp(t, s) ==
    \/ \E data \in {"bad", "good"} : SetImageGet(t, s, data)
    \/ \E prompt \in Prompts : PredictGet(t, s, prompt)

\* C27: a session leaves the registry only in a delete() of its id, in a
\* clear(), or in a step that runs _gc() when now - last_used > ttl_s; its
\* last_used is set to the time of its insertion and of every lookup that
\* finds it, and changes in no other way; so a lookup of a session that is
\* at most ttl_s old finds it.
C27_RemovedOnlyByDeleteClearOrTtl ==
    [][\A s \in Sids :
         /\ (s \in sessions /\ s \notin sessions')
              => \/ \E t \in Threads : Delete(t, s)
                 \/ \E t \in Threads : pc[t] = "clear" /\ pc'[t] # "clear"
                 \/ now - sobj[s].last_used > ttl_s
         /\ (s \notin sessions /\ s \in sessions') => sobj'[s].last_used = now
         /\ (s \in sessions /\ s \in sessions')
              => IF \E t \in Threads : LooksUp(t, s)
                   THEN sobj'[s].last_used = now
                   ELSE sobj'[s].last_used = sobj[s].last_used
         /\ (s \in sessions /\ Live(s) /\ \E t \in Threads : LooksUp(t, s))
              => s \in sessions']_vars

\* C27 witness: the first session, created at time 0 and looked up by a
\* predict at time 1, is in the registry at time 2, older than the ttl
\* since its creation, after a count() that found it.
C27_Witness ==
    \E t, u \in Threads :
        /\ now = 2 /\ ttl_s = 1
        /\ 1 \in sessions /\ sobj[1].last_used = 1
        /\ pc[t] = "done" /\ loc[t].op = "predict" /\ loc[t].sid = 1
        /\ loc[t].exc # "KeyError"
        /\ pc[u] = "done" /\ loc[u].op = "health" /\ loc[u].ret = 1

\* C28, as claimed: when the load() of a /model/select or /sessions request
\* has returned without building (its key was the loaded one), the request
\* removes no session from the registry.
C28_SameKeyKeepsSessions ==
    [][\A t \in Threads :
         (pc[t] = "clear" /\ pc'[t] # "clear" /\ loc[t].mine = 0
            /\ loc[t].key = model_key)
         => sessions' = sessions]_vars

\* C29, as claimed: a thread inside predictor.set_image or predictor.predict
\* is working on the predictor of a session that is in the registry.
C29_NoCallOnRemovedSession ==
    \A t \in Threads : InPredictor(t) => loc[t].sid \in sessions

====
